---- MODULE Spec2Model ----
(***************************************************************************)
(* A model of the schedule-expression front end in lib/ScheduleBuilder.js: *)
(* tokenize, buildAbstractSyntaxTree (buildExpression / buildArgument),    *)
(* compile (compileGroup) and syntaxError.                                 *)
(*                                                                         *)
(* Strings are TLA+ strings; a character is a string of length one.        *)
(* Cursor values (i, token.index) are zero-based, as in the source.        *)
(* A JavaScript null / undefined that is later tested or read is the empty *)
(* sequence <<>>, and a present value x is <<x>> (modulus only).           *)
(***************************************************************************)
EXTENDS Integers, Sequences, FiniteSets, TLC

VARIABLES text, tokens, ast, i, stack, phase, err, rules, lastArg

vars == <<text, tokens, ast, i, stack, phase, err, rules, lastArg>>

(***************************************************************************)
(* Bounds of the model.                                                    *)
(***************************************************************************)
MaxRawLen == 3

MaxExprs == 2

(***************************************************************************)
(* Strings.                                                                *)
(***************************************************************************)
charAt(str, k) == SubSeq(str, k + 1, k + 1)

substring(str, from, to) == IF from >= to THEN "" ELSE SubSeq(str, from + 1, to)

Max(a, b) == IF a > b THEN a ELSE b

Min(a, b) == IF a < b THEN a ELSE b

UpperCase == "ABCDEFGHIJKLMNOPQRSTUVWXYZ"

LowerCase == "abcdefghijklmnopqrstuvwxyz"

Digits == "0123456789"

RECURSIVE IndexIn(_, _, _)
IndexIn(str, c, k) ==
    IF k >= Len(str) THEN -1
    ELSE IF charAt(str, k) = c THEN k
    ELSE IndexIn(str, c, k + 1)

RECURSIVE toLowerCase(_)
toLowerCase(str) ==
    IF Len(str) = 0 THEN ""
    ELSE LET c == charAt(str, 0)
             u == IndexIn(UpperCase, c, 0)
         IN  (IF u >= 0 THEN charAt(LowerCase, u) ELSE c)
               \o toLowerCase(substring(str, 1, Len(str)))

\* Every character of str is of the alphabet.
AllIn(str, alphabet) ==
    \A k \in 0..(Len(str) - 1) : IndexIn(alphabet, charAt(str, k), 0) >= 0

\* The index of the first character of str, from k on, that is not of the
\* alphabet; Len(str) when there is none.
span(str, k, alphabet) ==
    IF AllIn(substring(str, k, Len(str)), alphabet) THEN Max(k, Len(str))
    ELSE CHOOSE j \in k..(Len(str) - 1) :
            /\ IndexIn(alphabet, charAt(str, j), 0) < 0
            /\ AllIn(substring(str, k, j), alphabet)

\* The least j such that the characters of str from j to k - 1 are of the
\* alphabet.
spanBack(str, k, alphabet) ==
    CHOOSE j \in 0..k :
        /\ j = 0 \/ IndexIn(alphabet, charAt(str, j - 1), 0) < 0
        /\ AllIn(substring(str, j, k), alphabet)

(***************************************************************************)
(* Whole numbers of any size are sequences of 16-bit limbs, the least      *)
(* significant first, with no zero limb at the top (<<>> is zero).  The    *)
(* operations that carry from limb to limb split the limbs in halves, so   *)
(* that their depth is the logarithm of the length.  Their first test      *)
(* (carry < 0, rem < 0, Len(..) < 0) never holds: it has the number that   *)
(* comes in computed before the halves are entered, not inside them.       *)
(***************************************************************************)
Limb == 2 ^ 16

limbAt(limbs, k) == IF k >= 1 /\ k <= Len(limbs) THEN limbs[k] ELSE 0

\* limbs without the zero limbs at its top.
trimmed(limbs) ==
    SubSeq(limbs, 1, CHOOSE t \in 0..Len(limbs) :
                        /\ t = 0 \/ limbs[t] # 0
                        /\ \A j \in (t + 1)..Len(limbs) : limbs[j] = 0)

\* A part q of a result, low limbs first, and the carry or remainder r that
\* leaves it: the part second follows the part q.
joined(q, second) == [q |-> q \o second.q, r |-> second.r]

\* The part first precedes the part q.
preceded(first, q) == [q |-> first.q \o q, r |-> first.r]

\* limbs[a..b] * m + carry: the limbs a..b of the product and the carry out
\* of them; m <= 2^15 and carry < 2^15.
RECURSIVE mulRange(_, _, _, _, _)
mulUpper(lower, limbs, a, b, m) == joined(lower.q, mulRange(limbs, a, b, m, lower.r))

mulRange(limbs, a, b, m, carry) ==
    IF carry < 0 \/ a > b THEN [q |-> <<>>, r |-> carry]
    ELSE IF a = b
    THEN [q |-> <<(limbs[a] * m + carry) % Limb>>, r |-> (limbs[a] * m + carry) \div Limb]
    ELSE mulUpper(mulRange(limbs, a, (a + b) \div 2, m, carry),
                  limbs, (a + b) \div 2 + 1, b, m)

withCarry(p) == IF p.r = 0 THEN p.q ELSE Append(p.q, p.r)

\* limbs * m + carry.
mulAdd(limbs, m, carry) == withCarry(mulRange(limbs, 1, Len(limbs), m, carry))

\* (rem * 2^(16 (b - a + 1)) + limbs[a..b]) divided by d: the limbs a..b of
\* the quotient and the remainder; rem < d <= 10^4.
RECURSIVE divRange(_, _, _, _, _)
divLower(upper, limbs, a, b, d) == preceded(divRange(limbs, a, b, upper.r, d), upper.q)

divRange(limbs, a, b, rem, d) ==
    IF rem < 0 \/ a > b THEN [q |-> <<>>, r |-> rem]
    ELSE IF a = b
    THEN [q |-> <<(rem * Limb + limbs[a]) \div d>>, r |-> (rem * Limb + limbs[a]) % d]
    ELSE divLower(divRange(limbs, (a + b) \div 2 + 1, b, rem, d),
                  limbs, a, (a + b) \div 2, d)

\* limbs * 10^n.
RECURSIVE timesTen(_, _)
timesTen(limbs, n) ==
    IF Len(limbs) < 0 \/ n = 0 THEN limbs
    ELSE IF n <= 4 THEN mulAdd(limbs, 10 ^ n, 0)
    ELSE timesTen(timesTen(limbs, n \div 2), n - n \div 2)

\* A whole number q and whether a fraction was dropped from it (sticky),
\* after one more division.
quotient(d, sticky) == [q |-> trimmed(d.q), sticky |-> sticky \/ d.r # 0]

\* x.q divided by 10^n, rounded down.
RECURSIVE overTen(_, _)
overTen(x, n) ==
    IF Len(x.q) < 0 \/ n = 0 THEN x
    ELSE IF n <= 4 THEN quotient(divRange(x.q, 1, Len(x.q), 0, 10 ^ n), x.sticky)
    ELSE overTen(overTen(x, n \div 2), n - n \div 2)

\* limbs * 2^n.
shiftLeft(limbs, n) ==
    trimmed([j \in 1..(Len(limbs) + n \div 16 + 1) |->
                ((limbAt(limbs, j - n \div 16) * 2 ^ (n % 16)) % Limb)
                  + (limbAt(limbs, j - n \div 16 - 1) \div 2 ^ (16 - (n % 16)))])

\* limbs divided by 2^n, rounded down.
shiftRight(limbs, n) ==
    trimmed([j \in 1..Max(0, Len(limbs) - n \div 16) |->
                (limbAt(limbs, j + n \div 16) \div 2 ^ (n % 16))
                  + (limbAt(limbs, j + n \div 16 + 1) % 2 ^ (n % 16)) * 2 ^ (16 - (n % 16))])

\* The number of bits of limbs.
bitLength(limbs) ==
    IF limbs = <<>> THEN 0
    ELSE 16 * (Len(limbs) - 1)
           + CHOOSE b \in 1..16 : 2 ^ (b - 1) <= limbs[Len(limbs)] /\ limbs[Len(limbs)] < 2 ^ b

bitAt(limbs, b) == (limbAt(limbs, b \div 16 + 1) \div 2 ^ (b % 16)) % 2

\* The bits of limbs below bit n are all zero.
zeroBelow(limbs, n) ==
    /\ \A j \in 1..(n \div 16) : limbAt(limbs, j) = 0
    /\ limbAt(limbs, n \div 16 + 1) % 2 ^ (n % 16) = 0

Digits16 == "0123456789abcdef0123456789ABCDEF"

\* The value of a digit in a radix up to 16, -1 for any other character.
digitValue(c, radix) ==
    IF IndexIn(Digits16, c, 0) >= 0 /\ (IndexIn(Digits16, c, 0) % 16) < radix
    THEN IndexIn(Digits16, c, 0) % 16
    ELSE -1

\* acc * radix^(b - a) + the value of the digits of str from a to b - 1.
RECURSIVE radixLimbs(_, _, _, _, _)
radixLimbs(str, a, b, radix, acc) ==
    IF Len(acc) < 0 \/ a >= b THEN acc
    ELSE IF a + 1 = b THEN mulAdd(acc, radix, digitValue(charAt(str, a), radix))
    ELSE radixLimbs(str, (a + b) \div 2, b, radix,
                    radixLimbs(str, a, (a + b) \div 2, radix, acc))

(***************************************************************************)
(* JavaScript numbers: doubles.  A number is a record: nan and inf tell    *)
(* NaN and the infinities, neg is the sign (kept for zero: -0), and a      *)
(* finite number is mant * 2^exp, mant being a whole number below 2^53 in  *)
(* limbs that is odd, or <<>> with exp 0 for zero.  Two finite numbers are *)
(* the same double exactly when they are the same record.                  *)
(***************************************************************************)
JSNumber(nan, neg, inf, mant, exp) ==
    [nan |-> nan, neg |-> neg, inf |-> inf, mant |-> mant, exp |-> exp]

NaN == JSNumber(TRUE, FALSE, FALSE, <<>>, 0)

Zero == JSNumber(FALSE, FALSE, FALSE, <<>>, 0)

Infinity == JSNumber(FALSE, FALSE, TRUE, <<>>, 0)

\* num *= -1 (line 98), and the sign of a literal.
negate(n) == IF n.nan THEN n ELSE [n EXCEPT !.neg = ~@]

\* The number of zero bits at the low end of limbs, which is not zero.
trailingZeros(limbs) ==
    CHOOSE t \in 0..(16 * Len(limbs)) : bitAt(limbs, t) = 1 /\ zeroBelow(limbs, t)

\* The double limbs * 2^exp, limbs having at most 53 bits: Infinity from
\* 2^1024 on.
double(limbs, exp) ==
    IF limbs = <<>> THEN Zero
    ELSE IF bitLength(limbs) + exp > 1024 THEN Infinity
    ELSE JSNumber(FALSE, FALSE, FALSE, shiftRight(limbs, trailingZeros(limbs)),
                  exp + trailingZeros(limbs))

\* q divided by 2^shift and rounded to the nearest whole number, ties to the
\* even one; sticky tells that q stands for a number above it by less than 1.
rounded(q, sticky, shift) ==
    IF shift = 0 THEN q
    ELSE IF /\ bitAt(q, shift - 1) = 1
            /\ (sticky \/ ~zeroBelow(q, shift - 1) \/ bitAt(q, shift) = 1)
    THEN mulAdd(shiftRight(q, shift), 1, 1)
    ELSE shiftRight(q, shift)

\* The double nearest to x.q * 2^b, or to a number above it by less than 2^b
\* when x.sticky: 53 bits are kept, fewer below 2^-1022 where doubles are
\* 2^-1074 apart.
nearest(x, b) ==
    double(rounded(x.q, x.sticky, Max(Max(bitLength(x.q) - 53, 0 - 1074 - b), 0)),
           b + Max(Max(bitLength(x.q) - 53, 0 - 1074 - b), 0))

\* The double nearest to n / 10^k: n * 2^s / 10^k, s being such that the
\* quotient has 55 bits at least (10^k < 2^(3.322 k)).
ratio(n, k, s) == nearest(overTen([q |-> shiftLeft(n, s), sticky |-> FALSE], k), 0 - s)

\* The double nearest to digits * 10^exp, digits having no zero at its front.
\* The number is at least 10^(Len(digits) + exp - 1) and less than
\* 10^(Len(digits) + exp); the largest double is below 10^309 and half the
\* least one above 10^-324.
decimal(digits, n, exp) ==
    IF Len(digits) + exp > 309 THEN Infinity
    ELSE IF Len(digits) + exp < -323 THEN Zero
    ELSE IF exp >= 0 THEN nearest([q |-> timesTen(n, exp), sticky |-> FALSE], 0)
    ELSE ratio(n, 0 - exp, Max(0, 57 + ((0 - exp) * 3322) \div 1000 - bitLength(n)))

\* The white space and line terminators that Number strips, those a string
\* of this module can hold: space, tab, line feed, carriage return, form
\* feed, vertical tab, U+00A0, U+1680 and U+FEFF.  U+2000 to U+200A, U+2028,
\* U+2029, U+202F, U+205F and U+3000 are stripped as well and cannot be
\* written.
StrWhiteSpace == " \t\n\r\f  ﻿"

stripLeadingZeros(str) == substring(str, span(str, 0, "0"), Len(str))

\* The value of a string of at most nine decimal digits.
RECURSIVE decimalValue(_)
decimalValue(str) ==
    IF Len(str) = 0 THEN 0
    ELSE 10 * decimalValue(substring(str, 0, Len(str) - 1))
           + IndexIn(Digits, charAt(str, Len(str) - 1), 0)

\* StrDecimalLiteral: all is the digits before and after the point with no
\* leading zero, fracLen the number of those after the point, e the digits of
\* the exponent with no leading zero.  An exponent of ten digits is beyond
\* the number of digits that a string can hold.
decimalLiteral(all, fracLen, expNegative, e) ==
    IF all = "" THEN Zero
    ELSE IF Len(e) > 9 THEN (IF expNegative THEN Zero ELSE Infinity)
    ELSE decimal(all, radixLimbs(all, 0, Len(all), 10, <<>>),
                 (IF expNegative THEN 0 - decimalValue(e) ELSE decimalValue(e)) - fracLen)

\* The exponent part, from es on (after the e and its sign).
decimalExponent(u, a, f, b, es) ==
    IF es >= Len(u) THEN NaN
    ELSE IF span(u, es, Digits) # Len(u) THEN NaN
    ELSE decimalLiteral(stripLeadingZeros(substring(u, 0, a) \o substring(u, f, b)), b - f,
                        charAt(u, es - 1) = "-", stripLeadingZeros(substring(u, es, Len(u))))

\* The integer digits are u[0..a), the fraction digits u[f..b).
decimalFraction(u, a, f, b) ==
    IF a = 0 /\ b = f THEN NaN
    ELSE IF b = Len(u)
    THEN decimalLiteral(stripLeadingZeros(substring(u, 0, a) \o substring(u, f, b)), b - f,
                        FALSE, "")
    ELSE IF charAt(u, b) \notin {"e", "E"} THEN NaN
    ELSE decimalExponent(u, a, f, b,
                         IF b + 1 < Len(u) /\ charAt(u, b + 1) \in {"+", "-"}
                         THEN b + 2 ELSE b + 1)

\* The digits before the point end at a.
decimalInteger(u, a) ==
    IF a < Len(u) /\ charAt(u, a) = "."
    THEN decimalFraction(u, a, a + 1, span(u, a + 1, Digits))
    ELSE decimalFraction(u, a, a, a)

\* StrUnsignedDecimalLiteral.
unsignedLiteral(u) ==
    IF u = "Infinity" THEN Infinity ELSE decimalInteger(u, span(u, 0, Digits))

\* 0x, 0o and 0b literals: digits in the radix, no sign.
radixLiteral(digits, radix) ==
    IF \E k \in 0..(Len(digits) - 1) : digitValue(charAt(digits, k), radix) < 0 THEN NaN
    ELSE nearest([q |-> radixLimbs(digits, 0, Len(digits), radix, <<>>), sticky |-> FALSE], 0)

radixOf(c) ==
    IF c \in {"x", "X"} THEN 16 ELSE IF c \in {"o", "O"} THEN 8
    ELSE IF c \in {"b", "B"} THEN 2 ELSE 0

\* StringNumericLiteral, the white space around it taken off.
numericLiteral(s) ==
    IF s = "" THEN Zero
    ELSE IF Len(s) > 2 /\ charAt(s, 0) = "0" /\ radixOf(charAt(s, 1)) > 0
    THEN radixLiteral(substring(s, 2, Len(s)), radixOf(charAt(s, 1)))
    ELSE IF charAt(s, 0) = "-" THEN negate(unsignedLiteral(substring(s, 1, Len(s))))
    ELSE IF charAt(s, 0) = "+" THEN unsignedLiteral(substring(s, 1, Len(s)))
    ELSE unsignedLiteral(s)

\* Number(t.value), line 93: the literal between the white space.
Number(value) ==
    numericLiteral(substring(value, span(value, 0, StrWhiteSpace),
                             spanBack(value, Len(value), StrWhiteSpace)))

\* isNaN(num) of line 94, on the string num was made of.
isNaN(value) == Number(value).nan

\* The number of a small integer of the code (a bound, a weekday).
fromInt(n) ==
    IF n < 0 THEN negate(double(trimmed(<<(0 - n) % Limb, (0 - n) \div Limb>>), 0))
    ELSE double(trimmed(<<n % Limb, n \div Limb>>), 0)

\* -1, 0 or 1 as the number of the given whole part, with a fraction or
\* without, is below, equal to or above c.
ordered(whole, fraction, c) ==
    IF whole < c THEN -1 ELSE IF whole > c THEN 1 ELSE IF fraction THEN 1 ELSE 0

\* x compared with the integer c, 0 <= c < 2^14: -1, 0 or 1.  A mantissa is
\* odd, so that a negative exponent tells a fraction.
compare(x, c) ==
    IF x.inf THEN (IF x.neg THEN -1 ELSE 1)
    ELSE IF x.mant = <<>> THEN (IF c = 0 THEN 0 ELSE -1)
    ELSE IF x.neg THEN -1
    ELSE IF bitLength(x.mant) + x.exp > 14 THEN 1
    ELSE IF x.exp >= 0 THEN ordered(x.mant[1] * 2 ^ x.exp, FALSE, c)
    ELSE ordered(limbAt(shiftRight(x.mant, 0 - x.exp), 1), TRUE, c)

\* The 32 bits hi, lo read as a signed integer.
signed(hi, lo) == IF hi >= 2 ^ 15 THEN (hi - Limb) * Limb + lo ELSE hi * Limb + lo

\* The low 32 bits of limbs, or of its two's complement, as a signed integer.
int32(limbs, neg) ==
    IF neg
    THEN signed((Limb - 1 - limbAt(limbs, 2) + (IF limbAt(limbs, 1) = 0 THEN 1 ELSE 0)) % Limb,
                (Limb - limbAt(limbs, 1)) % Limb)
    ELSE signed(limbAt(limbs, 2), limbAt(limbs, 1))

\* x | 0 (lines 435-438, 469-470, 479, 485-486): the whole part of x modulo
\* 2^32.
ToInt32(x) ==
    IF x.nan \/ x.inf \/ x.mant = <<>> THEN 0
    ELSE IF x.exp >= 32 THEN 0
    ELSE IF x.exp >= 0 THEN int32(shiftLeft(x.mant, x.exp), x.neg)
    ELSE int32(shiftRight(x.mant, 0 - x.exp), x.neg)

(***************************************************************************)
(* Token (lib/Token.js).                                                   *)
(***************************************************************************)
Token(index, value) == [index |-> index, value |-> value]

Specials == {"(", ")", "-", ",", "!", "/", "%"}

\* A tokenizer that forgets the carriage return among the whitespace cases.
WhitespaceWithoutReturn == {" ", "\t", "\n"}

Whitespace == {" ", "\t", "\n", "\r"}

DayNames == <<"mon", "tue", "wed", "thu", "fri", "sat", "sun">>

isSpecial(t) == t.value \in Specials

isDayKeyword(t) == \E d \in 1..Len(DayNames) : toLowerCase(t.value) = DayNames[d]

toDayOfWeek(t) == CHOOSE d \in 1..Len(DayNames) : toLowerCase(t.value) = DayNames[d]

isExpression(t) ==
    /\ Len(t.value) > 0
    /\ AllIn(toLowerCase(t.value), LowerCase)
    /\ ~isDayKeyword(t)

(***************************************************************************)
(* tokenize.                                                               *)
(***************************************************************************)
\* The loop of tokenize from character k on.  The first test of the ELSE
\* branch never holds: it makes the token and the list be computed at every
\* character, as the loop does, instead of all at once at the end.
RECURSIVE tokenizeFrom(_, _, _, _)
tokenizeFrom(str, k, token, toks) ==
    IF k >= Len(str)
    THEN IF Len(token.value) > 0 THEN Append(toks, token) ELSE toks
    ELSE LET c == charAt(str, k)
             flushed == IF Len(token.value) > 0 THEN Append(toks, token) ELSE toks
         IN  IF Len(toks) + Len(token.value) < 0 THEN toks
             ELSE IF c \in Whitespace
             THEN tokenizeFrom(str, k + 1, Token(k + 1, ""), flushed)
             ELSE IF c \in Specials
             THEN tokenizeFrom(str, k + 1, Token(k + 1, ""),
                               Append(flushed, Token(k, c)))
             ELSE tokenizeFrom(str, k + 1, Token(token.index, token.value \o c), toks)

tokenize(str) == tokenizeFrom(str, 0, Token(0, ""), <<>>)

(***************************************************************************)
(* Errors.  kind is "none", "SyntaxError" (built by syntaxError) or        *)
(* "TypeError" (a property read on an undefined token).  anchor is the     *)
(* index of the token the diagnostic points at; it is what the caret of    *)
(* pointer shows and is kept beside it for reading.                        *)
(***************************************************************************)
NoError == [kind |-> "none", message |-> "", sub |-> "", pointer |-> "", anchor |-> -1]

TypeError == [kind |-> "TypeError", message |-> "", sub |-> "", pointer |-> "", anchor |-> -1]

RECURSIVE pointerLine(_, _, _)
pointerLine(k, endIndex, index) ==
    IF k >= endIndex THEN ""
    ELSE (IF k = index THEN "^" ELSE " ") \o pointerLine(k + 1, endIndex, index)

syntaxError(message, token) ==
    LET startIndex == Max(token.index - 10, 0)
        endIndex == Min(token.index + Len(token.value) + 20, Len(text))
    IN  [kind |-> "SyntaxError",
         message |-> message,
         sub |-> substring(text, startIndex, endIndex),
         pointer |-> pointerLine(startIndex, endIndex, token.index),
         anchor |-> token.index]

has(k) == k >= 0 /\ k < Len(tokens)

tok(k) == tokens[k + 1]

ensureToken == syntaxError("Unexpected end of format string.", tokens[Len(tokens)])

(***************************************************************************)
(* Range (lib/Range.js), Argument (lib/Argument.js), Common.daysInMonth.   *)
(* A calendar date is a Range whose low is the month and high the day.     *)
(***************************************************************************)
null == <<>>

Range(low, high, split, modulus) ==
    [low |-> low, high |-> high, split |-> split, modulus |-> modulus]

NewRange(low, high) == Range(low, high, FALSE, null)

Argument(type, value, isExclude, modulus, firstToken) ==
    [type |-> type, value |-> value, isExclude |-> isExclude,
     modulus |-> modulus, firstToken |-> firstToken]

daysInMonth(month) == <<31, 29, 31, 30, 31, 30, 31, 31, 30, 31, 30, 31>>[month + 1]

\* What the lookup may give for a month that is no whole number: nothing
\* that compares (undefined), or the days of some month.
FractionLookups == {null} \cup {<<days>> : days \in 28..31}

(***************************************************************************)
(* buildArgument and its closures parseNumber and parseNumberOrDate.  The  *)
(* closures' variable t is always tokens[i], so only the cursor is passed. *)
(* A step that uses the result of a call takes it as a parameter.          *)
(***************************************************************************)
NumResult(e, num, k) == [err |-> e, num |-> num, i |-> k]

\* Lines 93-102, with the cursor on the token that should be the number.
parseDigits(k, negative) ==
    IF ~has(k) THEN NumResult(TypeError, Zero, k)
    ELSE IF isNaN(tok(k).value)
    THEN NumResult(syntaxError("Unknown argument syntax. Expected a number.", tok(k)), Zero, k)
    ELSE IF ~has(k + 1) THEN NumResult(ensureToken, Zero, k + 1)
    ELSE NumResult(NoError,
                   IF negative THEN negate(Number(tok(k).value)) ELSE Number(tok(k).value),
                   k + 1)

parseNumber(k) ==
    IF isSpecial(tok(k)) /\ tok(k).value # "-"
    THEN NumResult(syntaxError("Unexpected token in argument.", tok(k)), Zero, k)
    ELSE parseDigits(IF tok(k).value = "-" THEN k + 1 ELSE k, tok(k).value = "-")

\* A parsed bound: a number, a date (isRange: an instance of Range) or a weekday.
BoundResult(e, isRange, isDay, value, k) ==
    [err |-> e, isRange |-> isRange, isDay |-> isDay, value |-> value, i |-> k]

BoundError(e, k) == BoundResult(e, FALSE, FALSE, Zero, k)

\* day > Common.daysInMonth(month - 1), line 121, month being from 1 to 12;
\* lookup is what the call gives when month is no whole number (exp < 0).
afterMonth(day, month, lookup) ==
    IF month.exp >= 0 THEN compare(day, daysInMonth(ToInt32(month) - 1)) > 0
    ELSE IF lookup = null THEN FALSE
    ELSE compare(day, lookup[1]) > 0

\* Lines 120-124: n is the month, d the result of parseNumber for the day.
dateDay(n, d, firstToken, lookup) ==
    IF d.err # NoError THEN BoundError(d.err, d.i)
    ELSE IF compare(d.num, 1) < 0 \/ afterMonth(d.num, n.num, lookup)
    THEN BoundError(syntaxError("Invalid Date", firstToken), d.i)
    ELSE BoundResult(NoError, TRUE, FALSE, NewRange(n.num, d.num), d.i)

\* Lines 109-120: n is the result of the first parseNumber.
numberOrDate(n, firstToken, lookup) ==
    IF n.err # NoError THEN BoundError(n.err, n.i)
    ELSE IF tok(n.i).value # "/" THEN BoundResult(NoError, FALSE, FALSE, n.num, n.i)
    ELSE IF compare(n.num, 1) < 0 \/ compare(n.num, 12) > 0
    THEN BoundError(syntaxError("Invalid Month", firstToken), n.i)
    ELSE IF ~has(n.i + 1) THEN BoundError(ensureToken, n.i + 1)
    ELSE dateDay(n, parseNumber(n.i + 1), firstToken, lookup)

parseNumberOrDate(k, firstToken, lookup) == numberOrDate(parseNumber(k), firstToken, lookup)

\* What one call of buildArgument did: threw (kind "error"), returned without
\* pushing (kind "return"), pushed arg (kind "push"), or handed over to
\* buildExpression at cursor i (kind "expression").
ArgResult(kind, e, k, arg) == [kind |-> kind, err |-> e, i |-> k, arg |-> arg]

ArgError(e, k) == ArgResult("error", e, k, null)

\* Lines 230-235: m is the result of parseNumber for the modulus.
pushWithModulus(m, type, value, isExclude, firstToken) ==
    IF m.err # NoError THEN ArgError(m.err, m.i)
    ELSE ArgResult("push", NoError, m.i,
                   Argument(type, value, isExclude, <<m.num>>, firstToken))

\* Lines 225-235: the modulus component and the push, with the cursor k where
\* the value left it.  The test of line 226 reads t.value with no ensureToken.
argModulus(k, type, value, isExclude, firstToken) ==
    IF ~has(k) THEN ArgError(TypeError, k)
    ELSE IF tok(k).value # "%"
    THEN ArgResult("push", NoError, k, Argument(type, value, isExclude, null, firstToken))
    ELSE IF ~has(k + 1) THEN ArgError(ensureToken, k + 1)
    ELSE pushWithModulus(parseNumber(k + 1), type, value, isExclude, firstToken)

\* Lines 167-179: the first bound.
firstBound(k, firstToken, lookup) ==
    IF isDayKeyword(tok(k))
    THEN IF ~has(k + 1) THEN BoundError(ensureToken, k + 1)
         ELSE BoundResult(NoError, FALSE, TRUE, fromInt(toDayOfWeek(tok(k))), k + 1)
    ELSE parseNumberOrDate(k, firstToken, lookup)

\* Lines 187-196: the second bound.  After a weekday the cursor moves on with
\* no ensureToken.
secondBound(k, isDate, firstToken, lookup) ==
    IF isDayKeyword(tok(k)) /\ ~isDate
    THEN BoundResult(NoError, FALSE, TRUE, fromInt(toDayOfWeek(tok(k))), k + 1)
    ELSE parseNumberOrDate(k, firstToken, lookup)

\* Lines 196-205: the range of two bounds.  The test of line 196 is false
\* whenever the branch of line 187 was taken, which skips it.
argRange(low, high, isExclude, firstToken) ==
    IF high.err # NoError THEN ArgError(high.err, high.i)
    ELSE IF (low.isRange /\ ~high.isRange) \/ (~low.isRange /\ high.isRange)
    THEN ArgError(syntaxError("Cannot mix numeric and date ranges.", firstToken), high.i)
    ELSE argModulus(high.i,
                    IF low.isDay \/ high.isDay THEN "days"
                    ELSE IF low.isRange THEN "dates" ELSE "range",
                    NewRange(low.value, high.value), isExclude, firstToken)

\* Lines 181-222: what follows the first bound.
argValue(low, isExclude, firstToken, lookup) ==
    IF low.err # NoError THEN ArgError(low.err, low.i)
    ELSE IF tok(low.i).value = "-"
    THEN IF ~has(low.i + 1) THEN ArgError(ensureToken, low.i + 1)
         ELSE argRange(low, secondBound(low.i + 1, low.isRange, firstToken, lookup),
                       isExclude, firstToken)
    ELSE argModulus(low.i,
                    IF low.isRange THEN "dates" ELSE IF low.isDay THEN "days" ELSE "number",
                    IF low.isRange \/ low.isDay THEN NewRange(low.value, low.value)
                    ELSE low.value,
                    isExclude, firstToken)

\* Lines 138-223: from the first token after an optional '!'.  A wildcard
\* leaves the cursor on its '%'.
argBody(k, isExclude, firstToken, lookup) ==
    IF tok(k).value = ")" THEN ArgResult("return", NoError, k, null)
    ELSE IF tok(k).value = "," THEN ArgError(syntaxError("Empty argument", tok(k)), k)
    ELSE IF isExpression(tok(k))
    THEN IF isExclude
         THEN ArgError(syntaxError("Unexpected token in argument.", tok(k - 1)), k)
         ELSE ArgResult("expression", NoError, k, null)
    ELSE IF tok(k).value = "%"
    THEN argModulus(k, "wildcard", null, isExclude, firstToken)
    ELSE argValue(firstBound(k, firstToken, lookup), isExclude, firstToken, lookup)

\* A buildArgument that returns on "!)" without having consumed the "!".
buildArgumentStuck(k, lookup) ==
    IF tok(k).value = "!" /\ ~has(k + 1) THEN ArgError(ensureToken, k + 1)
    ELSE IF tok(k).value = "!" /\ tok(k + 1).value = ")"
    THEN ArgResult("return", NoError, k, null)
    ELSE argBody(IF tok(k).value = "!" THEN k + 1 ELSE k, tok(k).value = "!", tok(k), lookup)

\* Lines 66-236; lookup is what Common.daysInMonth gives for a month that is
\* no whole number.
buildArgument(k, lookup) ==
    IF tok(k).value = "!" /\ ~has(k + 1) THEN ArgError(ensureToken, k + 1)
    ELSE argBody(IF tok(k).value = "!" THEN k + 1 ELSE k, tok(k).value = "!", tok(k), lookup)

(***************************************************************************)
(* compileGroup.  A RuleGroup maps each property name to its list of       *)
(* Ranges; a list is created by the first push, so the empty sequence      *)
(* stands for a property that is not set.                                  *)
(***************************************************************************)
Fields == {"seconds", "minutes", "hours", "daysOfWeek", "daysOfMonth", "dates"}

Props == Fields \cup {f \o "Exclude" : f \in Fields}

RuleGroup == [p \in Props |-> <<>>]

isSet(list) == list # <<>>

Field(propType, min, max) == [propType |-> propType, min |-> min, max |-> max]

\* The switch on the lower-cased expression name; propType "" is the default case.
fieldOf(name) ==
    IF name \in {"s", "sec", "second", "seconds", "secondofminute", "secondsofminute"}
    THEN Field("seconds", 0, 59)
    ELSE IF name \in {"m", "min", "minute", "minutes", "minuteofhour", "minutesofhour"}
    THEN Field("minutes", 0, 59)
    ELSE IF name \in {"h", "hour", "hours", "hourofday", "hoursofday"}
    THEN Field("hours", 0, 23)
    ELSE IF name \in {"day", "days", "dow", "dayofweek", "daysofweek"}
    THEN Field("daysOfWeek", 1, 7)
    ELSE IF name \in {"dom", "dayofmonth", "daysofmonth"}
    THEN Field("daysOfMonth", -31, 31)
    ELSE IF name \in {"date", "dates"}
    THEN Field("dates", 1, 31)
    ELSE Field("", 0, 0)

\* arg.modulus used as a condition: null, 0 and -0 are false.
truthy(modulus) == modulus # null /\ (modulus[1].inf \/ modulus[1].mant # <<>>)

\* arg.modulus < 0, line 519: null compares as 0.
negative(modulus) == modulus # null /\ compare(modulus[1], 0) < 0

RangeResult(e, range) == [err |-> e, range |-> range]

\* Lines 441-454: low and high are the copies after month |= 0 and day |= 0.
dateRange(low, high, modulus) ==
    RangeResult(NoError,
                Range(NewRange(low.low - 1, low.high), NewRange(high.low - 1, high.high),
                      low.low >= high.low /\ (low.low > high.low \/ low.high > high.high),
                      modulus))

\* Lines 423-455.  The wildcard's bounds are assigned first, and the test
\* that follows it is a second if, not an else if.
normalizeDate(arg) ==
    LET wildcard == [low |-> NewRange(1, 1), high |-> NewRange(12, 31)]
    IN  IF arg.type = "dates"
        THEN dateRange(NewRange(ToInt32(arg.value.low.low), ToInt32(arg.value.low.high)),
                       NewRange(ToInt32(arg.value.high.low), ToInt32(arg.value.high.high)),
                       arg.modulus)
        ELSE RangeResult(syntaxError("Invalid argument. Expected a date.", arg.firstToken),
                         wildcard)

\* low, high and split as lines 456-498 leave them, or the error thrown there.
Bounds(e, low, high, split) == [err |-> e, low |-> low, high |-> high, split |-> split]

\* Lines 469-475: the bounds of a weekday argument, after | 0.
dayBounds(f, low, high, modulus) ==
    Bounds(NoError, low, IF high >= low /\ truthy(modulus) /\ high = low THEN f.max ELSE high,
           high < low)

\* Lines 485-493: the bounds of a range, after | 0.
rangeBounds(low, high) == Bounds(NoError, low, high, low > high /\ ~(low >= 0 /\ high < 0))

\* Lines 456-498.
numericBounds(f, name, arg) ==
    IF arg.type = "wildcard"
    THEN Bounds(NoError, IF f.propType = "daysOfMonth" THEN 1 ELSE f.min, f.max, FALSE)
    ELSE IF arg.type # "number" /\ (arg.type = "days" \/ f.propType = "daysOfWeek")
    THEN IF f.propType # "daysOfWeek"
         THEN Bounds(syntaxError("Weekday names can only be used inside daysOfWeek expressions.",
                                 arg.firstToken), 0, 0, FALSE)
         ELSE IF arg.type # "days" /\ arg.type # "range"
         THEN Bounds(syntaxError("Invalid argument in " \o name \o " expression.",
                                 arg.firstToken), 0, 0, FALSE)
         ELSE dayBounds(f, ToInt32(arg.value.low), ToInt32(arg.value.high), arg.modulus)
    ELSE IF arg.type = "number"
    THEN Bounds(NoError, ToInt32(arg.value),
                IF truthy(arg.modulus) THEN f.max ELSE ToInt32(arg.value), FALSE)
    ELSE IF arg.type = "range"
    THEN rangeBounds(ToInt32(arg.value.low), ToInt32(arg.value.high))
    ELSE Bounds(syntaxError("Invalid Argument", arg.firstToken), 0, 0, FALSE)

\* Lines 500-517: the bounds of every field but dates.
checkBounds(f, b, arg) ==
    IF b.err # NoError THEN RangeResult(b.err, null)
    ELSE IF b.low < f.min \/ b.high < f.min
    THEN RangeResult(syntaxError("Minimum " \o f.propType \o " value is " \o ToString(f.min),
                                 arg.firstToken), null)
    ELSE IF b.high > f.max \/ b.low > f.max
    THEN RangeResult(syntaxError("Maximum " \o f.propType \o " value is " \o ToString(f.max),
                                 arg.firstToken), null)
    ELSE IF f.propType = "daysOfMonth" /\ (b.low = 0 \/ b.high = 0)
    THEN RangeResult(syntaxError("Day of month cannot be zero.", arg.firstToken), null)
    ELSE IF f.propType = "daysOfWeek"
    THEN RangeResult(NoError, Range(b.low - 1, b.high - 1, b.split, arg.modulus))
    ELSE RangeResult(NoError, Range(b.low, b.high, b.split, arg.modulus))

\* Lines 519-520.
checkModulus(r, arg) ==
    IF r.err # NoError THEN r
    ELSE IF negative(arg.modulus)
    THEN RangeResult(syntaxError("Modulus value cannot be negative.", arg.firstToken), null)
    ELSE r

\* Lines 421-526 for one argument: the Range it adds, or the error it throws.
normalizeArgument(f, name, arg) ==
    checkModulus(IF f.propType = "dates" THEN normalizeDate(arg)
                 ELSE checkBounds(f, numericBounds(f, name, arg), arg),
                 arg)

GroupResult(e, rule, somethingSet) == [err |-> e, rule |-> rule, somethingSet |-> somethingSet]

\* Lines 522-526: r is the normalized argument args[x].
pushRange(rule, prop, r) ==
    IF r.err # NoError THEN GroupResult(r.err, rule, FALSE)
    ELSE GroupResult(NoError, [rule EXCEPT ![prop] = Append(@, r.range)], TRUE)

\* Lines 419-528: the loop over the arguments of one expression, from args[x].
RECURSIVE compileArguments(_, _, _, _, _)
compileArguments(r, f, name, args, x) ==
    IF r.err # NoError \/ x > Len(args) THEN r
    ELSE compileArguments(pushRange(r.rule,
                                    IF args[x].type # "expression" /\ args[x].isExclude
                                    THEN f.propType \o "Exclude" ELSE f.propType,
                                    normalizeArgument(f, name, args[x])),
                          f, name, args, x + 1)

\* Lines 405-416.
defaultArguments(cmd, f) ==
    IF Len(cmd.arguments) = 0 /\ f.propType # "dates"
    THEN <<Argument("range", NewRange(fromInt(f.min), fromInt(f.max)), FALSE, null,
                    cmd.firstToken)>>
    ELSE cmd.arguments

\* Implied values below the coarsest field that is set, whatever finer field
\* is set: every time field without a list that a coarser field follows.
impliedBelowCoarsest(rule) ==
    LET given(p) == isSet(rule[p]) \/ isSet(rule[p \o "Exclude"])
        dateLevel == \/ given("daysOfWeek") \/ given("daysOfMonth") \/ given("dates")
                     \/ ~(given("seconds") \/ given("minutes") \/ given("hours"))
    IN  [p \in Props |->
            IF \/ p = "hours" /\ ~given(p) /\ dateLevel
               \/ p = "minutes" /\ ~given(p) /\ (dateLevel \/ given("hours"))
               \/ p = "seconds" /\ ~given(p)
                     /\ (dateLevel \/ given("hours") \/ given("minutes"))
            THEN <<NewRange(0, 0)>>
            ELSE rule[p]]

\* Lines 534-553.
impliedValues(rule) ==
    IF isSet(rule["seconds"]) \/ isSet(rule["secondsExclude"])
    THEN rule
    ELSE IF isSet(rule["minutes"]) \/ isSet(rule["minutesExclude"])
    THEN [rule EXCEPT !["seconds"] = <<NewRange(0, 0)>>]
    ELSE IF isSet(rule["hours"]) \/ isSet(rule["hoursExclude"])
    THEN [rule EXCEPT !["seconds"] = <<NewRange(0, 0)>>,
                      !["minutes"] = <<NewRange(0, 0)>>]
    ELSE [rule EXCEPT !["seconds"] = <<NewRange(0, 0)>>,
                      !["minutes"] = <<NewRange(0, 0)>>,
                      !["hours"] = <<NewRange(0, 0)>>]

\* Lines 338-529: the loop over the expressions of a group, from expressions[k];
\* r holds the rule and somethingSet so far.
RECURSIVE compileExpressions(_, _, _)
compileExpressions(r, expressions, k) ==
    IF r.err # NoError \/ k > Len(expressions) THEN r
    ELSE IF expressions[k].type # "expression"
    THEN GroupResult(syntaxError("Expected a expression argument.", expressions[k].firstToken),
                     r.rule, FALSE)
    ELSE IF fieldOf(toLowerCase(expressions[k].name)).propType = ""
    THEN GroupResult(syntaxError("Unknown expression " \o expressions[k].name,
                                 expressions[k].firstToken), r.rule, FALSE)
    ELSE compileExpressions(
             compileArguments(
                 GroupResult(NoError, r.rule,
                             \/ r.somethingSet
                             \/ /\ Len(expressions[k].arguments) = 0
                                /\ fieldOf(toLowerCase(expressions[k].name)).propType = "dates"),
                 fieldOf(toLowerCase(expressions[k].name)),
                 toLowerCase(expressions[k].name),
                 defaultArguments(expressions[k], fieldOf(toLowerCase(expressions[k].name))),
                 1),
             expressions, k + 1)

\* Lines 531-555: null (somethingSet false) or the rule with its implied values.
groupResult(r) ==
    IF r.err # NoError \/ ~r.somethingSet THEN r
    ELSE GroupResult(NoError, impliedValues(r.rule), TRUE)

\* The result of compileGroup: an error, null, or the rule.
compileGroup(expressions) ==
    groupResult(compileExpressions(GroupResult(NoError, RuleGroup, FALSE), expressions, 1))

(***************************************************************************)
(* compile.                                                                *)
(***************************************************************************)
CompileResult(e, rs, globalExpressions) ==
    [err |-> e, rules |-> rs, globalExpressions |-> globalExpressions]

\* Lines 305-309: g is the result of compileGroup for a group node.
explicitGroup(c, cmd, g) ==
    IF g.err # NoError THEN CompileResult(g.err, c.rules, c.globalExpressions)
    ELSE IF ~g.somethingSet
    THEN CompileResult(syntaxError("No rules in schedule.", cmd.firstToken),
                       c.rules, c.globalExpressions)
    ELSE CompileResult(NoError, Append(c.rules, g.rule), c.globalExpressions)

\* Lines 297-315: one iteration of the loop over the syntax tree.
compileNode(c, cmd) ==
    IF cmd.type # "expression"
    THEN CompileResult(syntaxError("Syntax Tree is invalid. Top-level item is not a expression.",
                                   cmd.firstToken), c.rules, c.globalExpressions)
    ELSE IF cmd.name = "group"
    THEN explicitGroup(c, cmd, compileGroup(cmd.arguments))
    ELSE CompileResult(NoError, c.rules, Append(c.globalExpressions, cmd))

RECURSIVE compileNodes(_, _)
compileNodes(c, k) ==
    IF c.err # NoError \/ k > Len(ast) THEN c
    ELSE compileNodes(compileNode(c, ast[k]), k + 1)

\* An implicit group put in front of the groups instead of after them.
implicitGroupFirst(c, g) ==
    IF g.err # NoError THEN CompileResult(g.err, c.rules, c.globalExpressions)
    ELSE IF ~g.somethingSet THEN CompileResult(TypeError, c.rules, c.globalExpressions)
    ELSE CompileResult(NoError, <<g.rule>> \o c.rules, c.globalExpressions)

\* Lines 320-324: g is the result of compileGroup for the implicit group.  On
\* null, globalExpressions[i] is read with i = ast.length, which no list of
\* top-level expressions reaches.
implicitGroup(c, g) ==
    IF g.err # NoError THEN CompileResult(g.err, c.rules, c.globalExpressions)
    ELSE IF ~g.somethingSet THEN CompileResult(TypeError, c.rules, c.globalExpressions)
    ELSE CompileResult(NoError, Append(c.rules, g.rule), c.globalExpressions)

\* Lines 318-327.
compileGlobals(c) ==
    IF c.err # NoError \/ Len(c.globalExpressions) = 0 THEN c
    ELSE implicitGroup(c, compileGroup(c.globalExpressions))

compile == compileGlobals(compileNodes(CompileResult(NoError, <<>>, <<>>), 1))

(***************************************************************************)
(* The inputs: every string over RawChars of at most MaxRawLen characters, *)
(* every prefix of one field expression name(arguments), field expressions *)
(* on the number forms of JavaScript, every sequence of                    *)
(* at most MaxExprs of the SmallExpressions, every combination of fields   *)
(* in one group, and layouts of groups among top-level expressions.        *)
(***************************************************************************)
RawChars == {"h", "5", " ", "\t", "\n", "\r", "(", ")", "-", ",", "!", "/", "%"}

RECURSIVE Strings(_, _)
Strings(chars, n) ==
    IF n = 0 THEN {""}
    ELSE {s \o c : s \in Strings(chars, n - 1), c \in chars \cup {""}}

Prefixes(str) == {substring(str, 0, n) : n \in 0..Len(str)}

FieldNames == {"s", "m", "h", "day", "dom", "date"}

ArgumentTexts ==
    {"", "5", "0", "7", "23", "24", "31", "-1", "-31", "-32", "!5", "!", "!h()",
     "%", "%2", "%%2", "!%3", "%-1",
     "5%2", "5%0", "5%-2", "-3%2", "-3%0", "0%3", "23%1", "1%1", "7%3",
     "1-5", "5-1", "3-3", "-5-5", "5--1", "-5--1", "-1--5", "1-5%2", "0-5",
     "1--5,-5-1", "5-1,1-5", "!5-1",
     "mon", "fri-mon", "mon-fri", "MON", "mon%2", "tue-tue%2", "mon-5", "2-sat",
     "1/1", "11/15-2/1", "1/5-12/31", "3/4-3/4", "13/1", "4/31", "1/1-5", "5-1/1",
     "1/1%2", "m(1)", "5,!7", "5 7", ",", " 5\r,\n23\t"}

OneExpression ==
    {n \o "(" \o a \o ")" : n \in FieldNames \cup {"group", "foo", "H"}, a \in ArgumentTexts}

\* Field expressions on arguments whose numbers are not plain runs of decimal
\* digits, do not fit 32 bits, or are not doubles and are rounded to one.
NumberExpressions ==
    {"h(+5", "h(5.5-0x1", "h(\f,", "h(.5"} \cup
    {n \o "(" \o a \o ")" : n \in {"h", "day", "dom", "date"},
     a \in
    {"+5", "-+5", "+", ".", "5.", ".5", "5.5", "-5.5", "0.9", "1e1", "1e+1", "2E0", "5e",
     "0x10", "0X1f", "0b11", "0o7", "0x", "+0x10", "\f", "\f5\f", "5\f5", "-0", "00",
     "Infinity", "-Infinity", "infinity", "1e400",
     "4294967296", "4294967295", "-4294967295", "2147483648", "4294967301.5",
     "9007199254740993", "23.99999999999999999",
     "5%+0", "5%-0", "5%0.5", "5%2.5", "5.5%2", "5%Infinity", "5%0x0", "4294967301%2",
     "1.5-7.5", "mon-5.5", "0x1-0x5%1e0",
     "1.5/3", "12.5/31", "2.5/30", "0.5/1", "1/1.5", "1/0.5", "1/31.5", "0x1/0b1-1e1/+5",
     "5", "5", "", " 5﻿", "55", " ",
     "12.0000000000000001/1", "1/31.00000000000000000001", "0.99999999999999999/1",
     "1/0.99999999999999999", "12.000000000000001/1", "1/31.000000000000001",
     "23.000000000000000001", "23.00000000000001",
     "5%0.0", "5%0.000000000000000000001", "5%0.99999999999999999",
     "1.7976931348623158e308", "17976931348623158079372897140530341507993413271e262",
     "5%17976931348623158079372897140530341507993413272e262"}}

SmallExpressions ==
    {"s(5)", "s(!5)", "m(5)", "h(5)", "h()", "day(1)", "dom(1)", "date(1/1)", "date()",
     "group(h(5))", "group()", "group(5)", ",", " "}

RECURSIVE Sequences(_, _)
Sequences(parts, n) ==
    IF n = 0 THEN {""}
    ELSE {s \o e : s \in Sequences(parts, n - 1), e \in parts \cup {""}}

FieldCombinations ==
    {a \o b \o c \o d : a \in {"", "s(5)", "s(!5)"}, b \in {"", "m(5)", "m(!5)"},
                        c \in {"", "h(5)", "h(!5)"},
                        d \in {"", "day(1)", "dom(1)", "date(1/1)", "date()"}}

GroupLayouts ==
    {a \o b \o c : a \in {"", "s(5)", "group(s(1))"}, b \in {"group(h(5))", "m(1),"},
                   c \in {"", "h(2)", "group(m(1))", "group(m(1),s(2))"}}

Texts ==
    Strings(RawChars, MaxRawLen)
      \cup UNION {Prefixes(e) : e \in OneExpression}
      \cup NumberExpressions
      \cup Sequences(SmallExpressions, MaxExprs)
      \cup FieldCombinations
      \cup GroupLayouts

(***************************************************************************)
(* The state machine: new ScheduleBuilder(text), then tokenize,            *)
(* buildAbstractSyntaxTree and compile, each run once and in this order.   *)
(* buildAbstractSyntaxTree advances one loop iteration at a time; stack    *)
(* holds the buildExpression calls in progress, innermost last.            *)
(***************************************************************************)
Init ==
    /\ text \in Texts
    /\ tokens = <<>>
    /\ ast = <<>>
    /\ i = 0
    /\ stack = <<>>
    /\ phase = "tokenize"
    /\ err = NoError
    /\ rules = <<>>
    /\ lastArg = "none"

Tokenize ==
    /\ phase = "tokenize"
    /\ tokens' = tokenize(text)
    /\ phase' = "parse"
    /\ UNCHANGED <<text, ast, i, stack, err, rules, lastArg>>

Throw(e) ==
    /\ phase' = "failed"
    /\ err' = e

\* Lines 245-267 of buildExpression at cursor k: the error it throws, if any.
openExpression(k) ==
    IF ~has(k + 1) THEN syntaxError("Expression has no opening parenthesis.", tok(k))
    ELSE IF tok(k + 1).value # "(" THEN syntaxError("Unexpected an opening parenthesis.", tok(k + 1))
    ELSE NoError

Frame(start) == [start |-> start, arguments |-> <<>>]

\* buildExpression is entered at cursor k.
Entered(k, e) ==
    IF e # NoError
    THEN Throw(e) /\ UNCHANGED <<i, stack>>
    ELSE /\ stack' = Append(stack, Frame(k))
         /\ i' = k + 2
         /\ UNCHANGED <<phase, err>>

Enter(k) == Entered(k, openExpression(k))

\* The comma that buildExpression's loop skips after buildArgument returned at k.
skipComma(k) == IF has(k) /\ tok(k).value = "," THEN k + 1 ELSE k

\* One iteration of buildAbstractSyntaxTree's loop on an expression token.
TopExpression ==
    /\ phase = "parse" /\ stack = <<>>
    /\ has(i) /\ isExpression(tok(i))
    /\ Enter(i)
    /\ UNCHANGED <<text, tokens, ast, rules, lastArg>>

\* One iteration on any other token: a comma is skipped, the rest is an error.
TopOther ==
    /\ phase = "parse" /\ stack = <<>>
    /\ has(i) /\ ~isExpression(tok(i))
    /\ IF i > 0 /\ tok(i).value = ","
       THEN i' = i + 1 /\ UNCHANGED <<phase, err>>
       ELSE Throw(syntaxError("Unexpected token. Expected a expression.", tok(i)))
              /\ UNCHANGED i
    /\ UNCHANGED <<text, tokens, ast, stack, rules, lastArg>>

\* The loop ends: buildAbstractSyntaxTree returns.
TopReturn ==
    /\ phase = "parse" /\ stack = <<>>
    /\ ~has(i)
    /\ phase' = "compile"
    /\ UNCHANGED <<text, tokens, ast, i, stack, err, rules, lastArg>>

top == stack[Len(stack)]

\* One iteration of buildExpression's loop that calls buildArgument, whose
\* result is r.
Argued(r) ==
    /\ lastArg' = r.kind
    /\ IF r.kind = "error"
       THEN Throw(r.err) /\ UNCHANGED <<i, stack>>
       ELSE IF r.kind = "expression"
       THEN Enter(r.i)
       ELSE /\ i' = skipComma(r.i)
            /\ stack' = IF r.kind = "push"
                        THEN [stack EXCEPT ![Len(stack)].arguments = Append(@, r.arg)]
                        ELSE stack
            /\ UNCHANGED <<phase, err>>

ArgumentStep ==
    /\ phase = "parse" /\ stack # <<>>
    /\ has(i) /\ tok(i).value # ")"
    /\ \E lookup \in FractionLookups : Argued(buildArgument(i, lookup))
    /\ UNCHANGED <<text, tokens, ast, rules>>

\* buildExpression's loop ends on ')': the node is pushed to the context and
\* the call returns i + 1, to buildArgument (which returns it to the
\* enclosing loop, where a comma is skipped) or to buildAbstractSyntaxTree.
CloseExpression ==
    /\ phase = "parse" /\ stack # <<>>
    /\ has(i) /\ tok(i).value = ")"
    /\ LET cmd == [type |-> "expression",
                   name |-> tok(top.start).value,
                   arguments |-> top.arguments,
                   firstToken |-> tok(top.start)]
           rest == SubSeq(stack, 1, Len(stack) - 1)
       IN  IF rest = <<>>
           THEN /\ ast' = Append(ast, cmd)
                /\ stack' = rest
                /\ i' = i + 1
           ELSE /\ stack' = [rest EXCEPT ![Len(rest)].arguments = Append(@, cmd)]
                /\ i' = skipComma(i + 1)
                /\ UNCHANGED ast
    /\ UNCHANGED <<text, tokens, phase, err, rules, lastArg>>

\* The error anchored to the outermost open expression instead of the one
\* whose loop ended.
MissingCloseOutermost ==
    /\ phase = "parse" /\ stack # <<>>
    /\ ~has(i)
    /\ Throw(syntaxError("Expression is missing a closing parenthesis.", tok(stack[1].start)))
    /\ UNCHANGED <<text, tokens, ast, i, stack, rules, lastArg>>

\* buildExpression's loop ends on the end of the tokens.
MissingClose ==
    /\ phase = "parse" /\ stack # <<>>
    /\ ~has(i)
    /\ Throw(syntaxError("Expression is missing a closing parenthesis.", tok(top.start)))
    /\ UNCHANGED <<text, tokens, ast, i, stack, rules, lastArg>>

Compiled(c) ==
    IF c.err # NoError
    THEN Throw(c.err) /\ UNCHANGED rules
    ELSE /\ rules' = c.rules
         /\ phase' = "done"
         /\ UNCHANGED err

Compile ==
    /\ phase = "compile"
    /\ Compiled(compile)
    /\ UNCHANGED <<text, tokens, ast, i, stack, lastArg>>

Next ==
    \/ Tokenize
    \/ TopExpression
    \/ TopOther
    \/ TopReturn
    \/ ArgumentStep
    \/ CloseExpression
    \/ MissingClose
    \/ Compile

Spec == Init /\ [][Next]_vars

(***************************************************************************)
(* Properties.                                                             *)
(***************************************************************************)
ParseEnded == phase \in {"compile", "done", "failed"}

\* compile was called: buildAbstractSyntaxTree returned.
CompileCalled ==
    \/ phase \in {"compile", "done"}
    \/ phase = "failed" /\ stack = <<>> /\ ~has(i)

NumericProps == {"seconds", "minutes", "hours", "daysOfWeek", "daysOfMonth"}

\* The field the first token names.
namedField == fieldOf(toLowerCase(tokens[1].value))

\* The kinds of the tokens: "name" for an expression token, "num" for a
\* number, and its own text for any other token.
Kinds ==
    [k \in 1..Len(tokens) |->
        IF isExpression(tokens[k]) THEN "name"
        ELSE IF ~isNaN(tokens[k].value) THEN "num"
        ELSE tokens[k].value]

IsGroup(cmd) == cmd.name = "group"

NotGroup(cmd) == cmd.name # "group"

\* The lists of expressions compile hands to compileGroup, in the order of
\* the RuleGroups it returns.
GroupInputs ==
    [k \in 1..Len(SelectSeq(ast, IsGroup)) |-> SelectSeq(ast, IsGroup)[k].arguments]
      \o (IF Len(SelectSeq(ast, NotGroup)) > 0 THEN <<SelectSeq(ast, NotGroup)>> ELSE <<>>)

\* C1: for every numeric field F, the text F(%) parses to one wildcard
\* Argument with value null and modulus null, and compiles to one Range over
\* the field's domain (low = min, or 1 for day-of-month; high = max).
C1_WildcardAlone ==
    (/\ ParseEnded
     /\ Len(tokens) = 4
     /\ Kinds = <<"name", "(", "%", ")">>
     /\ namedField.propType \in NumericProps)
    => /\ phase # "failed"
       /\ Len(ast) = 1
       /\ Len(ast[1].arguments) = 1
       /\ ast[1].arguments[1].type = "wildcard"
       /\ ast[1].arguments[1].value = null
       /\ ast[1].arguments[1].modulus = null
       /\ phase = "done" =>
            /\ Len(rules) = 1
            /\ rules[1][namedField.propType]
                 = <<Range(IF namedField.propType = "daysOfMonth" THEN 1
                           ELSE namedField.min,
                           namedField.max, FALSE, null)>>

\* C2: whatever the input, the pipeline returns or fails with an error built
\* by syntaxError; no stage fails with another kind of error.
C2_OnlySyntaxErrors ==
    phase = "failed" =>
        /\ err.kind = "SyntaxError"
        /\ Len(err.pointer) = Len(err.sub)

\* The lists of one RuleGroup before the implied values are filled in.
explicitRule(expressions) ==
    compileExpressions(GroupResult(NoError, RuleGroup, FALSE), expressions, 1).rule

received(rule, prop) == isSet(rule[prop]) \/ isSet(rule[prop \o "Exclude"])

TimeProps == {"seconds", "minutes", "hours"}

\* Fineness of a field: seconds are the finest, the date-level fields
\* (day of week, day of month, date) the coarsest.
rank(prop) ==
    CASE prop \in {"seconds", "secondsExclude"} -> 1
      [] prop \in {"minutes", "minutesExclude"} -> 2
      [] prop \in {"hours", "hoursExclude"} -> 3
      [] OTHER -> 4

finestReceived(rule) ==
    IF \E p \in TimeProps : received(rule, p)
    THEN CHOOSE r \in 1..3 :
            /\ \E p \in TimeProps : received(rule, p) /\ rank(p) = r
            /\ \A p \in TimeProps : received(rule, p) => rank(p) >= r
    ELSE rank("dates")

coarsestReceived(rule) ==
    IF \E p \in Props \ TimeProps : rank(p) = rank("dates") /\ isSet(rule[p])
    THEN rank("dates")
    ELSE IF \E p \in TimeProps : received(rule, p)
    THEN CHOOSE r \in 1..3 :
            /\ \E p \in TimeProps : received(rule, p) /\ rank(p) = r
            /\ \A p \in TimeProps : received(rule, p) => rank(p) <= r
    ELSE rank("dates")

\* C3 (as the code has it): in every RuleGroup compile returns, a time field
\* (seconds, minutes, hours) that is finer than the finest time field with a
\* list or an exclude list holds exactly [Range(0, 0)]; all three do when
\* only date-level fields are given.  Every other list, of a field that
\* received an argument or of a field coarser than that finest one, is what
\* the arguments made it: none is overwritten and none is filled in.
C3_ImpliedDefaults ==
    phase = "done" =>
        /\ Len(rules) = Len(GroupInputs)
        /\ \A k \in 1..Len(rules) : \A p \in Props :
              rules[k][p] =
                 IF p \in TimeProps /\ rank(p) < finestReceived(explicitRule(GroupInputs[k]))
                 THEN <<NewRange(0, 0)>>
                 ELSE explicitRule(GroupInputs[k])[p]

\* C3 witness: a group with hours and seconds given and minutes left alone,
\* and a group where minutes and seconds were filled in below hours.
C3_Witness ==
    /\ phase = "done"
    /\ Len(rules) = 2
    /\ Len(GroupInputs) = 2
    /\ received(explicitRule(GroupInputs[1]), "hours")
    /\ ~received(explicitRule(GroupInputs[1]), "minutes")
    /\ rules[1].minutes = <<NewRange(0, 0)>>
    /\ rules[1].seconds = <<NewRange(0, 0)>>
    /\ received(explicitRule(GroupInputs[2]), "seconds")
    /\ ~received(explicitRule(GroupInputs[2]), "minutes")
    /\ rules[2].minutes = <<>>

\* C3 (as the spec states it): every time field that received no argument
\* and is finer than the coarsest field that received one holds exactly
\* [Range(0, 0)], and a field that received an argument is not overwritten.
C3_BelowCoarsest ==
    phase = "done" =>
        /\ Len(rules) = Len(GroupInputs)
        /\ \A k \in 1..Len(rules) : \A p \in TimeProps :
              IF received(explicitRule(GroupInputs[k]), p)
              THEN /\ rules[k][p] = explicitRule(GroupInputs[k])[p]
                   /\ rules[k][p \o "Exclude"] = explicitRule(GroupInputs[k])[p \o "Exclude"]
              ELSE rank(p) < coarsestReceived(explicitRule(GroupInputs[k]))
                      => rules[k][p] = <<NewRange(0, 0)>>

\* The tokens of F(n%k) and of F(-n%k), F one of the fields that take
\* numbers, at the call of compile or after it.
C4_Input ==
    /\ CompileCalled
    /\ Kinds \in {<<"name", "(", "num", "%", "num", ")">>,
                  <<"name", "(", "-", "num", "%", "num", ")">>}
    /\ namedField.propType \in NumericProps

\* The digits of n and those of k.
C4_nToken == tokens[Len(tokens) - 3].value

C4_kToken == tokens[Len(tokens) - 1].value

C4_n ==
    IF Len(tokens) = 7 THEN negate(Number(C4_nToken)) ELSE Number(C4_nToken)

C4_k == Number(C4_kToken)

\* n is a whole number written in decimal digits, with a sign or without,
\* within the bounds of F and not 0 for day-of-month; k is a whole number
\* written in decimal digits.
C4_Plain ==
    /\ AllIn(C4_nToken, Digits)
    /\ AllIn(C4_kToken, Digits)
    /\ ~C4_n.inf /\ C4_n.exp >= 0 /\ C4_n.exp + bitLength(C4_n.mant) < 32
    /\ ToInt32(C4_n) >= namedField.min
    /\ ToInt32(C4_n) <= namedField.max
    /\ namedField.propType = "daysOfMonth" => ToInt32(C4_n) # 0
    /\ ~C4_k.inf /\ C4_k.exp >= 0

\* C4: for every numeric field F, every plain number n within the bounds of
\* F and every whole modulus k that is not negative, k = 0 included, F(n%k)
\* compiles to one Range with low n, high the maximum of F and modulus k
\* (for day-of-week both bounds are stored one lower, as the other Ranges
\* of that field).
C4_AlwaysToMax ==
    (C4_Input /\ C4_Plain) =>
        /\ phase # "failed"
        /\ phase = "done" =>
             /\ Len(rules) = 1
             /\ rules[1][namedField.propType]
                  = IF namedField.propType = "daysOfWeek"
                    THEN <<Range(ToInt32(C4_n) - 1, namedField.max - 1, FALSE, <<C4_k>>)>>
                    ELSE <<Range(ToInt32(C4_n), namedField.max, FALSE, <<C4_k>>)>>

\* C5: a wildcard argument inside date(...) compiles, without an error, to
\* one Range from January 1 (month 0, day 1) to December 31 (month 11,
\* day 31).
C5_DateWildcard ==
    (/\ CompileCalled
     /\ Len(ast) = 1
     /\ fieldOf(toLowerCase(ast[1].name)).propType = "dates"
     /\ Len(ast[1].arguments) = 1
     /\ ast[1].arguments[1].type = "wildcard"
     /\ phase \in {"done", "failed"})
    => /\ phase = "done"
       /\ Len(rules) = 1
       /\ Len(rules[1].dates \o rules[1].datesExclude) = 1
       /\ (rules[1].dates \o rules[1].datesExclude)[1].low = NewRange(0, 1)
       /\ (rules[1].dates \o rules[1].datesExclude)[1].high = NewRange(11, 31)

\* The Ranges of the numeric lists of a RuleGroup, grouped by field.
numericRanges(rule, prop) == rule[prop] \o rule[prop \o "Exclude"]

boundsOf(ranges) ==
    {ranges[k].low : k \in 1..Len(ranges)} \cup {ranges[k].high : k \in 1..Len(ranges)}

\* Some ordering of the values (an injective ranking) puts low at or before
\* high in every Range with split = false.
orderedBy(ranges, values) ==
    \E ord \in [values -> 1..Cardinality(values)] :
        /\ \A v, w \in values : v # w => ord[v] # ord[w]
        /\ \A k \in 1..Len(ranges) :
              ranges[k].split = FALSE => ord[ranges[k].low] <= ord[ranges[k].high]

dateBefore(a, b) == a.low < b.low \/ (a.low = b.low /\ a.high <= b.high)

\* C6: every Range compileGroup appends with split = false has low <= high
\* under one fixed ordering of its field's domain; for day-of-month this
\* covers every combination of signs of the two bounds.  An ordering of the
\* whole domain orders the bounds that occur in one list.
C6_SplitOrdering ==
    phase = "done" =>
        \A k \in 1..Len(rules) :
            /\ \A p \in NumericProps :
                  orderedBy(numericRanges(rules[k], p), boundsOf(numericRanges(rules[k], p)))
            /\ \A d \in 1..Len(numericRanges(rules[k], "dates")) :
                  numericRanges(rules[k], "dates")[d].split = FALSE =>
                      dateBefore(numericRanges(rules[k], "dates")[d].low,
                                 numericRanges(rules[k], "dates")[d].high)

\* C7: compile returns the RuleGroup of every group expression, in the order
\* of the groups in the AST, followed by one RuleGroup made of all the
\* expressions outside any group when there is at least one.
C7_GroupOrder ==
    phase = "done" =>
        /\ Len(rules) = Len(SelectSeq(ast, IsGroup))
                          + (IF Len(SelectSeq(ast, NotGroup)) > 0 THEN 1 ELSE 0)
        /\ \A k \in 1..Len(SelectSeq(ast, IsGroup)) :
              rules[k] = compileGroup(SelectSeq(ast, IsGroup)[k].arguments).rule
        /\ Len(SelectSeq(ast, NotGroup)) > 0 =>
              rules[Len(SelectSeq(ast, IsGroup)) + 1] = compileGroup(SelectSeq(ast, NotGroup)).rule

\* C7 witness: two groups, and expressions outside them that come first.
C7_Witness ==
    /\ phase = "done"
    /\ Len(ast) >= 3
    /\ NotGroup(ast[1])
    /\ Len(SelectSeq(ast, IsGroup)) = 2
    /\ Len(rules) = 3
    /\ rules[1] # rules[3]

count(value) == Cardinality({k \in 1..Len(tokens) : tokens[k].value = value})

\* C8 (as the code has it): when more ( than ) are in the input the parser
\* never returns.  The error 'Expression is missing a closing parenthesis.'
\* is raised only when the tokens end right after a (, a comma or the ) of a
\* nested expression, and it is anchored to the name token of the innermost
\* expression that is still open.  name( and name(n, fail with it; name(n
\* and name(n-n fail with 'Unexpected end of format string.' anchored to the
\* last token.
C8_MissingClose ==
    /\ count("(") > count(")") => phase \notin {"compile", "done"}
    /\ (phase = "failed" /\ err.message = "Expression is missing a closing parenthesis.") =>
          /\ err.kind = "SyntaxError"
          /\ stack # <<>>
          /\ ~has(i)
          /\ count("(") > count(")")
          /\ tokens[Len(tokens)].value \in {"(", ",", ")"}
          /\ isExpression(tok(stack[Len(stack)].start))
          /\ tok(stack[Len(stack)].start + 1).value = "("
          /\ err.anchor = tok(stack[Len(stack)].start).index
    /\ (ParseEnded /\ Len(tokens) \in {2, 4}
          /\ Kinds \in {<<"name", "(">>, <<"name", "(", "num", ",">>}) =>
          /\ phase = "failed"
          /\ err.message = "Expression is missing a closing parenthesis."
          /\ err.anchor = tokens[1].index
    /\ (ParseEnded /\ Len(tokens) \in {3, 5}
          /\ Kinds \in {<<"name", "(", "num">>, <<"name", "(", "num", "-", "num">>}) =>
          /\ phase = "failed"
          /\ err.kind = "SyntaxError"
          /\ err.message = "Unexpected end of format string."
          /\ err.anchor = tokens[Len(tokens)].index

\* C8 witness: the input ends inside a nested expression, right after its (.
C8_Witness ==
    /\ phase = "failed"
    /\ err.message = "Expression is missing a closing parenthesis."
    /\ Len(stack) = 2
    /\ err.anchor > tok(stack[1].start).index

\* C8 (as the spec states it): whatever follows the ( of an expression that
\* is never closed (nothing, a number, a range, a trailing comma), the error
\* is 'Expression is missing a closing parenthesis.' anchored to the name
\* token of that expression.
C8_AlwaysMissingClose ==
    (/\ ParseEnded
     /\ Len(tokens) \in 2..5
     /\ Kinds \in {<<"name", "(">>, <<"name", "(", "num">>,
                   <<"name", "(", "num", "-", "num">>, <<"name", "(", "num", ",">>})
    => /\ phase = "failed"
       /\ err.message = "Expression is missing a closing parenthesis."
       /\ err.anchor = tokens[1].index

specialCharacters == {"(", ")", "-", ",", "!", "/", "%"}

whitespaceCharacters == {" ", "\t", "\n", "\r"}

\* C9: the tokens are the maximal runs of characters that are neither
\* whitespace (space, tab, newline, carriage return) nor special, and one
\* token per special character ( ) - , ! / %.  Every token records the
\* zero-based offset of its first character, and the offsets increase
\* strictly along the list.
C9_Tokenize ==
    phase # "tokenize" =>
        /\ \A k \in 1..Len(tokens) :
              /\ Len(tokens[k].value) > 0
              /\ tokens[k].index >= 0
              /\ tokens[k].index + Len(tokens[k].value) <= Len(text)
              /\ substring(text, tokens[k].index, tokens[k].index + Len(tokens[k].value))
                    = tokens[k].value
              /\ IF tokens[k].value \in specialCharacters THEN TRUE
                 ELSE /\ \A p \in 0..(Len(tokens[k].value) - 1) :
                            charAt(tokens[k].value, p)
                               \notin specialCharacters \cup whitespaceCharacters
                      /\ tokens[k].index > 0 =>
                            charAt(text, tokens[k].index - 1)
                               \in specialCharacters \cup whitespaceCharacters
                      /\ tokens[k].index + Len(tokens[k].value) < Len(text) =>
                            charAt(text, tokens[k].index + Len(tokens[k].value))
                               \in specialCharacters \cup whitespaceCharacters
        /\ \A k \in 1..(Len(tokens) - 1) :
              tokens[k].index + Len(tokens[k].value) <= tokens[k + 1].index
        /\ \A p \in 0..(Len(text) - 1) :
              charAt(text, p) \notin whitespaceCharacters =>
                  \E k \in 1..Len(tokens) :
                      tokens[k].index <= p /\ p < tokens[k].index + Len(tokens[k].value)

\* C9 witness: a text with a run of several characters, a special character,
\* a carriage return and another whitespace character.
C9_Witness ==
    /\ phase = "parse"
    /\ Len(tokens) >= 2
    /\ \E k \in 1..Len(tokens) : Len(tokens[k].value) >= 2
    /\ \E k \in 1..Len(tokens) : tokens[k].value \in specialCharacters
    /\ \E p \in 0..(Len(text) - 1) : charAt(text, p) = "\r"
    /\ \E p \in 0..(Len(text) - 1) : charAt(text, p) \in {" ", "\t", "\n"}

\* C10: every pass of the top-level loop of buildAbstractSyntaxTree and of
\* the argument loop of buildExpression that does not throw leaves the
\* cursor strictly further, and never beyond the end of the tokens, also
\* when buildArgument returns without an argument because it stands on a ).
\* The loops therefore end after at most as many passes as there are tokens.
C10_Progress ==
    [][(phase = "parse" /\ phase' = "parse") => (i < i' /\ i' <= Len(tokens))]_vars

\* C10 witness: buildArgument has consumed a ! and returned nothing because
\* the next token is the closing parenthesis.
C10_Witness ==
    /\ phase = "parse"
    /\ lastArg = "return"
    /\ i >= 1
    /\ has(i)
    /\ tok(i).value = ")"
    /\ tok(i - 1).value = "!"

====
